---- MODULE Spec2Model ----
(***************************************************************************)
(* Employee task management service: the task store and TasksService       *)
(* (src/src/task/task.service.ts) as a state machine.                      *)
(*                                                                         *)
(* Time is counted in half days: instant 0 is 2024-12-30T00:00:00Z, and    *)
(* one calendar day is DayLen instants (the server's time zone is taken to *)
(* be UTC, so that Date.setDate(getDate() + 1) adds exactly one day).      *)
(* Texts are sequences of one-character strings.  A nullable column or an  *)
(* optional DTO field is <<>> when absent (NULL / undefined) and <<v>>     *)
(* when it holds v.                                                        *)
(***************************************************************************)
EXTENDS Integers, Sequences, FiniteSets, TLC

VARIABLES
    tasks,      \* the tasks table: task id -> row
    nextId,     \* the next primary key the store generates
    now,        \* the clock
    calls,      \* the service calls in flight: slot -> the call's position and locals
    last,       \* the outcome of the service call that this step completed, if any
    users       \* the users table: user id -> row

vars == <<tasks, nextId, now, calls, last, users>>

-----------------------------------------------------------------------------
(* Bounds of the model *)

MaxTasks == 2       \* rows the store ever generates in Spec
MaxStatTasks == 1   \* rows the store ever generates in SpecStats
MaxTime == 1        \* last instant a behaviour may run at
MaxListTasks == 2   \* rows of a store SpecFilter starts from
MaxPageTasks == 3   \* rows of a store SpecPage starts from

(* Program constants *)

DefaultPage == 1
DefaultLimit == 10
MaxLimit == 100
DayLen == 2

-----------------------------------------------------------------------------
(* Values *)

Null == <<>>
Some(v) == <<v>>
IsNull(x) == x = <<>>
Val(x) == x[1]

Users == {"u1", "u2"}
Slots == {"s1", "s2"}

TaskStatus == {"pending", "in_progress", "completed"}
TaskPriority == {"low", "medium", "high", "urgent"}

\* JavaScript truthiness of an optional string field (Truthy) or an optional
\* text field (TruthyText): undefined and the empty string are falsy.
Truthy(x) == ~IsNull(x) /\ Val(x) # ""
TruthyText(x) == ~IsNull(x) /\ Val(x) # <<>>

\* new Date(s).getTime(): the instant a date string denotes, <<>> for Invalid Date.
ParseDate(s) ==
    CASE s = "2024-12-30" -> Some(0)
      [] s = "2024-12-30T12:00:00.000Z" -> Some(1)
      [] s = "2024-12-31" -> Some(2)
      [] s = "2024-12-31T12:00:00.000Z" -> Some(3)
      [] s = "2025-01-01" -> Some(4)
      [] OTHER -> Null

\* JavaScript's not-a-number, which parseInt returns for a text that does not
\* start with a number: a value apart from every number the model uses, and
\* every comparison with it is false.
NaN == -999999

IsNaN(x) == x = NaN

LessThan(a, b) == ~IsNaN(a) /\ ~IsNaN(b) /\ a < b

GreaterThan(a, b) == ~IsNaN(a) /\ ~IsNaN(b) /\ a > b

\* parseInt(value) of a query-string value
ParseInt(value) ==
    CASE value = "0" -> 0
      [] value = "1" -> 1
      [] value = "2" -> 2
      [] value = "2.5" -> 2
      [] value = "100" -> 100
      [] value = "101" -> 101
      [] OTHER -> NaN

Lower(c) == IF c = "A" THEN "a" ELSE IF c = "B" THEN "b" ELSE c

IsSpace(c) == c = " "

RECURSIVE TrimStart(_)
TrimStart(s) ==
    IF s # <<>> /\ IsSpace(Head(s)) THEN TrimStart(Tail(s)) ELSE s

RECURSIVE TrimEnd(_)
TrimEnd(s) ==
    IF s # <<>> /\ IsSpace(s[Len(s)]) THEN TrimEnd(SubSeq(s, 1, Len(s) - 1)) ELSE s

\* String.prototype.trim
Trim(s) == TrimEnd(TrimStart(s))

\* text ILIKE pattern: % matches any run of characters, _ any one character,
\* every other character itself, ignoring letter case.
RECURSIVE ILike(_, _)
ILike(text, pattern) ==
    IF pattern = <<>> THEN text = <<>>
    ELSE IF Head(pattern) = "%"
         THEN ILike(text, Tail(pattern)) \/ (text # <<>> /\ ILike(Tail(text), pattern))
         ELSE /\ text # <<>>
              /\ (Head(pattern) = "_" \/ Lower(Head(pattern)) = Lower(Head(text)))
              /\ ILike(Tail(text), Tail(pattern))

\* NULL ILIKE pattern is NULL, which a WHERE clause treats as false.
ColumnILike(column, pattern) == ~IsNull(column) /\ ILike(Val(column), pattern)

-----------------------------------------------------------------------------
(* findAll: the query *)

\* page = 1, limit = 10 when the DTO leaves them undefined
PageOf(filterDto) == IF IsNull(filterDto.page) THEN DefaultPage ELSE Val(filterDto.page)
LimitOf(filterDto) == IF IsNull(filterDto.limit) THEN DefaultLimit ELSE Val(filterDto.limit)

\* The failure findAll throws before it runs the query, "" when there is none.
FindAllRejectsStatus_Never(filterDto) == FALSE

FindAllRejectsStatus(filterDto) ==
    Truthy(filterDto.status) /\ Val(filterDto.status) \notin TaskStatus

FindAllRejectsDueDate(filterDto) ==
    Truthy(filterDto.dueDate) /\ IsNull(ParseDate(Val(filterDto.dueDate)))

FindAllError(filterDto, userId) ==
    IF userId = "" THEN "User ID is required"
    ELSE IF \/ LessThan(PageOf(filterDto), 1)
            \/ LessThan(LimitOf(filterDto), 1)
            \/ GreaterThan(LimitOf(filterDto), MaxLimit)
         THEN "Invalid pagination parameters"
    ELSE IF FindAllRejectsStatus(filterDto) THEN "Invalid task status"
    ELSE IF FindAllRejectsDueDate(filterDto) THEN "Invalid due date format"
    ELSE ""

StatusClause(task, filterDto) ==
    Truthy(filterDto.status) => task.status = Val(filterDto.status)

DueDateWindow_Closed(dueDate, targetDate) ==
    /\ ~IsNull(dueDate)
    /\ Val(dueDate) >= targetDate
    /\ Val(dueDate) <= targetDate + DayLen

\* task.dueDate >= :startDate AND task.dueDate < :endDate, false on a NULL dueDate
DueDateWindow(dueDate, targetDate) ==
    /\ ~IsNull(dueDate)
    /\ Val(dueDate) >= targetDate
    /\ Val(dueDate) < targetDate + DayLen

DueDateClause(task, filterDto) ==
    Truthy(filterDto.dueDate) =>
        DueDateWindow(task.dueDate, Val(ParseDate(Val(filterDto.dueDate))))

\* (task.title ILIKE :search OR task.description ILIKE :search), :search = %trimmed%
SearchMatch(task, sanitizedSearch) ==
    LET search == <<"%">> \o sanitizedSearch \o <<"%">>
    IN  ILike(task.title, search) \/ ColumnILike(task.description, search)

SearchClause(task, filterDto) ==
    (TruthyText(filterDto.search) /\ Len(Trim(Val(filterDto.search))) > 0) =>
        SearchMatch(task, Trim(Val(filterDto.search)))

OwnerClause(task, userId) == task.userId = userId

\* The WHERE clause the query builder has accumulated
FindAllWhere(task, filterDto, userId) ==
    /\ OwnerClause(task, userId)
    /\ StatusClause(task, filterDto)
    /\ DueDateClause(task, filterDto)
    /\ SearchClause(task, filterDto)

Matching(store, filterDto, userId) ==
    {id \in DOMAIN store : FindAllWhere(store[id], filterDto, userId)}

\* ORDER BY task.createdAt DESC: every arrangement of the rows S in which the
\* creation times never increase (rows of equal creation time in any order).
RECURSIVE DescOrders(_, _)
DescOrders(store, S) ==
    IF S = {} THEN {<<>>}
    ELSE LET newest == {id \in S : \A o \in S : store[o].createdAt <= store[id].createdAt}
         IN  UNION {{<<id>> \o rest : rest \in DescOrders(store, S \ {id})} : id \in newest}

SkipOf_PageTimesLimit(filterDto) == PageOf(filterDto) * LimitOf(filterDto)

SkipOf(filterDto) ==
    IF IsNaN(PageOf(filterDto)) \/ IsNaN(LimitOf(filterDto)) THEN NaN
    ELSE (PageOf(filterDto) - 1) * LimitOf(filterDto)

\* OFFSET skip LIMIT take of an ordered result
SkipTake(ordered, skip, take) ==
    SubSeq(ordered, skip + 1, IF skip + take < Len(ordered) THEN skip + take ELSE Len(ordered))

\* Math.ceil(total / limit) for total >= 0, limit >= 1
CeilDiv(total, limit) == (total + limit - 1) \div limit

-----------------------------------------------------------------------------
(* Outcomes of service calls *)

NoFilter == [status |-> Null, dueDate |-> Null, search |-> Null, page |-> Null, limit |-> Null]
NoUpdate == [title |-> Null, description |-> Null, status |-> Null, priority |-> Null, dueDate |-> Null]
NoStats == [total |-> 0, completed |-> 0, pending |-> 0, inProgress |-> 0, overdue |-> 0]

\* What a completed call leaves behind: its arguments, the kind of its result
\* ("ok" or the exception thrown) with the exception's message, the number of
\* store calls it issued, and the value returned.
NoOutcome ==
    [op |-> "none", id |-> 0, userId |-> "", filterDto |-> NoFilter,
     updateTaskDto |-> NoUpdate, email |-> <<>>, password |-> <<>>,
     newPassword |-> <<>>, user |-> Null, token |-> Null,
     kind |-> "none", message |-> "", storeCalls |-> 0, storeError |-> "",
     task |-> Null, items |-> <<>>, total |-> 0, page |-> 0, limit |-> 0, totalPages |-> 0,
     stats |-> NoStats, clean |-> TRUE, at |-> 0]

Failure(op, id, userId, kind, message, storeCalls) ==
    [NoOutcome EXCEPT !.op = op, !.id = id, !.userId = userId, !.kind = kind,
                      !.message = message, !.storeCalls = storeCalls]

Rows(store, ids) == [i \in 1..Len(ids) |-> store[ids[i]]]

\* findAll(filterDto, userId): one query (getManyAndCount) unless the arguments
\* are rejected first.  The query builder's skip and take throw on a value
\* that is not a number, which the catch turns into InternalServerError.
findAll(filterDto, userId) ==
    /\ IF FindAllError(filterDto, userId) # ""
       THEN last' = [Failure("findAll", 0, userId, "BadRequest",
                             FindAllError(filterDto, userId), 0)
                        EXCEPT !.filterDto = filterDto]
       ELSE IF IsNaN(SkipOf(filterDto)) \/ IsNaN(LimitOf(filterDto))
       THEN last' = [Failure("findAll", 0, userId, "InternalError",
                             "Failed to retrieve tasks", 0)
                        EXCEPT !.filterDto = filterDto]
       ELSE \E ordered \in DescOrders(tasks, Matching(tasks, filterDto, userId)) :
               last' = [NoOutcome EXCEPT
                           !.op = "findAll", !.userId = userId, !.filterDto = filterDto,
                           !.kind = "ok", !.storeCalls = 1,
                           !.items = Rows(tasks, SkipTake(ordered, SkipOf(filterDto),
                                                          LimitOf(filterDto))),
                           !.total = Len(ordered),
                           !.page = PageOf(filterDto),
                           !.limit = LimitOf(filterDto),
                           !.totalPages = CeilDiv(Len(ordered), LimitOf(filterDto))]
    /\ UNCHANGED <<tasks, nextId, now, calls, users>>

NoCall == [pc |-> "idle"]
NoCalls == [s \in Slots |-> NoCall]

-----------------------------------------------------------------------------
(* Listing with filters: findAll over stores of a few rows that differ in     *)
(* owner, texts, status and due date.                                         *)

Row(id, userId, title, description, status, priority, dueDate, completedAt, createdAt, updatedAt) ==
    [id |-> id, userId |-> userId, title |-> title, description |-> description,
     status |-> status, priority |-> priority, dueDate |-> dueDate,
     completedAt |-> completedAt, createdAt |-> createdAt, updatedAt |-> updatedAt]

FilterTexts ==
    {<<<<"b", "A">>, Null>>, <<<<"b">>, Some(<<"a">>)>>, <<<<"b">>, Null>>}

FilterRows(id) ==
    {Row(id, u, t[1], t[2], st, "medium", d, IF st = "completed" THEN Some(0) ELSE Null, id, id) :
        u \in Users, t \in FilterTexts, st \in {"pending", "completed"}, d \in {Null, Some(2)}}

StoresOf(n, rows(_)) ==
    {store \in [1..n -> UNION {rows(i) : i \in 1..n}] : \A i \in 1..n : store[i].id = i}

FilterStores == UNION {StoresOf(n, FilterRows) : n \in 0..MaxListTasks}

FilterDtos ==
    {[status |-> st, dueDate |-> d, search |-> se, page |-> pl[1], limit |-> pl[2]] :
        st \in {Null, Some("pending"), Some("done"), Some("")},
        d \in {Null, Some("2024-12-31"), Some("31/12/2024"), Some("")},
        se \in {Null, Some(<<" ">>), Some(<<" ", "A">>), Some(<<"_">>)},
        pl \in {<<Null, Null>>, <<Some(2), Some(1)>>, <<Some(0), Null>>, <<Null, Some(101)>>}}

InitFilter ==
    /\ tasks \in FilterStores
    /\ nextId = MaxListTasks + 1
    /\ now = 0
    /\ calls = NoCalls
    /\ last = NoOutcome
    /\ users = <<>>

\* One listing per behaviour, by the caller u1
ListFiltered ==
    /\ last = NoOutcome
    /\ \E filterDto \in FilterDtos : findAll(filterDto, "u1")

NextFilter == ListFiltered

SpecFilter == InitFilter /\ [][NextFilter]_vars

(* C3: findAll returns as items only tasks of the caller that satisfy every   *)
(* supplied filter at once -- status equality, the dueDate window, and search *)
(* as a case-insensitive substring of title or description after trimming, a  *)
(* search empty after trimming being ignored -- and total is the number of    *)
(* all stored tasks satisfying that conjunction, whatever page and limit are. *)

LowerText(s) == [i \in 1..Len(s) |-> Lower(s[i])]

\* needle occurs in text, ignoring letter case
ContainsText(text, needle) ==
    \E i \in 0..(Len(text) - Len(needle)) :
        SubSeq(LowerText(text), i + 1, i + Len(needle)) = LowerText(needle)

SubstringOfTitleOrDescription(task, needle) ==
    \/ ContainsText(task.title, needle)
    \/ (~IsNull(task.description) /\ ContainsText(Val(task.description), needle))

SatisfiesFilters(task, filterDto, userId) ==
    /\ task.userId = userId
    /\ Truthy(filterDto.status) => task.status = Val(filterDto.status)
    /\ Truthy(filterDto.dueDate) =>
          /\ ~IsNull(task.dueDate)
          /\ Val(ParseDate(Val(filterDto.dueDate))) <= Val(task.dueDate)
          /\ Val(task.dueDate) < Val(ParseDate(Val(filterDto.dueDate))) + DayLen
    /\ (TruthyText(filterDto.search) /\ Trim(Val(filterDto.search)) # <<>>) =>
          SubstringOfTitleOrDescription(task, Trim(Val(filterDto.search)))

C3_ItemsAndTotalSatisfyFilters ==
    (last.op = "findAll" /\ last.kind = "ok") =>
        /\ \A i \in 1..Len(last.items) :
              SatisfiesFilters(last.items[i], last.filterDto, last.userId)
        /\ last.total = Cardinality({id \in DOMAIN tasks :
                            SatisfiesFilters(tasks[id], last.filterDto, last.userId)})

(* C5: findAll fails with BadRequest, without a store call, whenever page < 1, *)
(* limit < 1, limit > 100, the dueDate filter is unparsable or the status      *)
(* filter is not a member of the enum.                                         *)

BadPaging(filterDto) ==
    PageOf(filterDto) < 1 \/ LimitOf(filterDto) < 1 \/ LimitOf(filterDto) > 100

-----------------------------------------------------------------------------
(* Listing by due date: findAll over stores whose rows differ in owner and    *)
(* due date.                                                                  *)

DueRows(id) ==
    {Row(id, u, <<"b">>, Null, "pending", "medium", d, Null, id, id) :
        u \in Users, d \in {Null, Some(1), Some(2), Some(3), Some(4)}}

DueStores == UNION {StoresOf(n, DueRows) : n \in 0..MaxListTasks}

DueDtos ==
    {[NoFilter EXCEPT !.dueDate = d] :
        d \in {Null, Some("2024-12-30T12:00:00.000Z"), Some("2024-12-31"), Some("")}}

InitDue ==
    /\ tasks \in DueStores
    /\ nextId = MaxListTasks + 1
    /\ now = 0
    /\ calls = NoCalls
    /\ last = NoOutcome
    /\ users = <<>>

ListByDueDate ==
    /\ last = NoOutcome
    /\ \E filterDto \in DueDtos, userId \in Users : findAll(filterDto, userId)

NextDue == ListByDueDate

SpecDue == InitDue /\ [][NextDue]_vars

(* C6: findAll filtered by dueDate = d returns exactly the caller's tasks     *)
(* whose dueDate t satisfies d <= t < d + 1 day; a task without a dueDate is   *)
(* never returned under a dueDate filter.                                     *)

ItemIds(items) == {items[i].id : i \in 1..Len(items)}

C6_DueDateWindowHalfOpen ==
    (last.op = "findAll" /\ last.kind = "ok" /\ Truthy(last.filterDto.dueDate)) =>
        LET d == Val(ParseDate(Val(last.filterDto.dueDate)))
        IN  /\ ItemIds(last.items) =
                  {id \in DOMAIN tasks :
                      /\ tasks[id].userId = last.userId
                      /\ tasks[id].dueDate # Null
                      /\ d <= Val(tasks[id].dueDate)
                      /\ Val(tasks[id].dueDate) < d + DayLen}
            /\ \A i \in 1..Len(last.items) : last.items[i] = tasks[last.items[i].id]

\* A listing by due date that returned a task due at the window's first instant
\* while the caller also owns a task due exactly one day later.
C6_Witness ==
    /\ last.op = "findAll"
    /\ last.kind = "ok"
    /\ last.filterDto.dueDate = Some("2024-12-31")
    /\ \E i \in 1..Len(last.items) : last.items[i].dueDate = Some(2)
    /\ \E id \in DOMAIN tasks : tasks[id].userId = last.userId /\ tasks[id].dueDate = Some(4)

-----------------------------------------------------------------------------
(* Paging: findAll without filters over stores whose rows differ in owner and *)
(* creation time, and over the caller's 25 tasks created at 25 instants.      *)

PageRows(id) ==
    {Row(id, u, <<"b">>, Null, "pending", "medium", Null, Null, c, c) :
        u \in Users, c \in 0..MaxTime}

TwentyFive == [id \in 1..25 |-> Row(id, "u1", <<"b">>, Null, "pending", "medium", Null, Null, id, id)]

PageStores == UNION {StoresOf(n, PageRows) : n \in 0..MaxPageTasks} \cup {TwentyFive}

PageDtos ==
    {[NoFilter EXCEPT !.page = p, !.limit = l] :
        p \in {Null, Some(1), Some(2), Some(3), Some(0)},
        l \in {Null, Some(1), Some(2), Some(100), Some(101), Some(0)}}

InitPage ==
    /\ tasks \in PageStores
    /\ nextId = Len(tasks) + 1
    /\ now = 0
    /\ calls = NoCalls
    /\ last = NoOutcome
    /\ users = <<>>

ListPage ==
    /\ last = NoOutcome
    /\ \E filterDto \in PageDtos : findAll(filterDto, "u1")

NextPage == ListPage

SpecPage == InitPage /\ [][NextPage]_vars

(* C4: findAll with valid page p and limit l over n matching tasks returns    *)
(* the slice [(p-1)*l, min(p*l, n)) of the matching tasks in descending order *)
(* of creation time, with total = n, page = p, limit = l and totalPages =     *)
(* ceil(n/l); limit 10, page 2 on 25 tasks gives items 11 to 20, total 25 and *)
(* totalPages 3; a page beyond the last gives no items and the same total.    *)

Min(a, b) == IF a < b THEN a ELSE b

\* The arrangements of the rows S by descending creation time: the one
\* arrangement by rank when the creation times differ pairwise, else every
\* enumeration of S whose creation times never increase.
Newer(S, id) == {o \in S : tasks[o].createdAt > tasks[id].createdAt}

DescendingArrangements(S) ==
    IF \A a, b \in S : a # b => tasks[a].createdAt # tasks[b].createdAt
    THEN {[k \in 1..Cardinality(S) |-> CHOOSE id \in S : Cardinality(Newer(S, id)) = k - 1]}
    ELSE {ord \in [1..Cardinality(S) -> S] :
             /\ \A i, j \in 1..Cardinality(S) : i # j => ord[i] # ord[j]
             /\ \A i, j \in 1..Cardinality(S) :
                   i < j => tasks[ord[i]].createdAt >= tasks[ord[j]].createdAt}

IsCeilingOf(k, n, l) == k * l >= n /\ (k - 1) * l < n

C4_PageIsSliceOfDescendingList ==
    (last.op = "findAll" /\ last.kind = "ok") =>
        LET p == IF last.filterDto.page = Null THEN 1 ELSE Val(last.filterDto.page)
            l == IF last.filterDto.limit = Null THEN 10 ELSE Val(last.filterDto.limit)
            S == {id \in DOMAIN tasks : tasks[id].userId = last.userId}
            n == Cardinality(S)
        IN  /\ \E ord \in DescendingArrangements(S) :
                  /\ Len(last.items) = IF (p - 1) * l < n THEN Min(p * l, n) - (p - 1) * l ELSE 0
                  /\ \A i \in 1..Len(last.items) :
                        last.items[i] = tasks[ord[(p - 1) * l + i]]
            /\ last.total = n
            /\ last.page = p
            /\ last.limit = l
            /\ IsCeilingOf(last.totalPages, n, l)
            /\ (tasks = TwentyFive /\ p = 2 /\ l = 10) =>
                  /\ last.items = [i \in 1..10 |-> TwentyFive[25 - 10 - i + 1]]
                  /\ last.total = 25
                  /\ last.totalPages = 3
            /\ (p - 1) * l >= n => last.items = <<>>

\* Page 2 of the 25 tasks by 10.
C4_Witness ==
    /\ last.op = "findAll"
    /\ last.kind = "ok"
    /\ tasks = TwentyFive
    /\ last.page = 2
    /\ last.limit = 10
    /\ Len(last.items) = 10

-----------------------------------------------------------------------------
(* The service under concurrent calls.  A call that awaits the store more     *)
(* than once (update, markAsComplete, remove, getTaskStats) occupies a slot   *)
(* between its store calls, and other calls run in between.                   *)

NoCreate == [title |-> <<"a">>, description |-> Null, priority |-> Null, dueDate |-> Null]

CreateTaskDtos ==
    {[NoCreate EXCEPT !.title = t, !.dueDate = d] :
        t \in {<<"a">>, <<>>}, d \in {Null, Some("tomorrow")}}

UpdateTaskDtos ==
    {[NoUpdate EXCEPT !.status = Some(st)] : st \in {"in_progress", "completed", "done", ""}}
    \cup {[NoUpdate EXCEPT !.dueDate = Some("tomorrow")]}

FindOneRow_AnyOwner(store, id, userId) ==
    IF id \in DOMAIN store THEN Some(store[id]) ELSE Null

\* repository.findOne({ where: { id, userId } })
FindOneRow(store, id, userId) ==
    IF id \in DOMAIN store /\ store[id].userId = userId THEN Some(store[id]) ELSE Null

findOneResult_OwnerCheckedAfter(store, id, userId) ==
    IF userId = ""
    THEN [kind |-> "BadRequest", message |-> "Task ID and user ID are required",
          task |-> Null, storeCalls |-> 0]
    ELSE IF id \notin DOMAIN store
         THEN [kind |-> "NotFound", message |-> "Task not found", task |-> Null, storeCalls |-> 1]
    ELSE IF store[id].userId # userId
         THEN [kind |-> "Forbidden", message |-> "Access denied", task |-> Null, storeCalls |-> 1]
         ELSE [kind |-> "ok", message |-> "", task |-> Some(store[id]), storeCalls |-> 1]

\* findOne(id, userId): the kind of its result, the message and the task
findOneResult(store, id, userId) ==
    IF userId = ""
    THEN [kind |-> "BadRequest", message |-> "Task ID and user ID are required",
          task |-> Null, storeCalls |-> 0]
    ELSE IF IsNull(FindOneRow(store, id, userId))
         THEN [kind |-> "NotFound", message |-> "Task not found", task |-> Null, storeCalls |-> 1]
         ELSE [kind |-> "ok", message |-> "", task |-> FindOneRow(store, id, userId),
               storeCalls |-> 1]

\* The columns of the store accept the row (status and priority are enum columns).
RowAccepted(row) == row.status \in TaskStatus /\ row.priority \in TaskPriority

Save_RefusesStaleEntity(store, entity, t) ==
    IF entity.id \in DOMAIN store
    THEN IF store[entity.id].updatedAt # entity.updatedAt \/ store[entity.id] = entity THEN store
         ELSE [store EXCEPT ![entity.id] = [entity EXCEPT !.updatedAt = t]]
    ELSE [id \in DOMAIN store \cup {entity.id} |->
             IF id = entity.id THEN entity ELSE store[id]]

\* repository.save(entity) at instant t: an UPDATE of the row with the entity's
\* primary key, which also sets updatedAt, when the entity differs from the
\* row; nothing when it does not differ; an INSERT when there is no such row.
Save(store, entity, t) ==
    IF entity.id \in DOMAIN store
    THEN IF store[entity.id] = entity THEN store
         ELSE [store EXCEPT ![entity.id] = [entity EXCEPT !.updatedAt = t]]
    ELSE [id \in DOMAIN store \cup {entity.id} |->
             IF id = entity.id THEN entity ELSE store[id]]

\* repository.remove(entity): DELETE of the row with the entity's primary key
Remove(store, entity) == [id \in DOMAIN store \ {entity.id} |-> store[id]]

\* A completed call marks the statistics calls of the same owner that are in
\* flight when it has changed the store.
Disturb(cs, userId, changed) ==
    [s \in Slots |->
        IF changed /\ cs[s].pc = "stats" /\ cs[s].userId = userId
        THEN [cs[s] EXCEPT !.clean = FALSE] ELSE cs[s]]

Outcome(op, id, userId, res) ==
    [NoOutcome EXCEPT !.op = op, !.id = id, !.userId = userId, !.kind = res.kind,
                      !.message = res.message, !.task = res.task,
                      !.storeCalls = res.storeCalls]

\* An empty store.  The calls of one behaviour run within one instant of the
\* clock, which is any instant up to MaxTime.
Init ==
    /\ tasks = <<>>
    /\ nextId = 1
    /\ now \in 0..MaxTime
    /\ calls = NoCalls
    /\ last = NoOutcome
    /\ users = <<>>

\* The task create builds from the DTO; the store fills in the defaults.
NewTask(id, createTaskDto, userId, t) ==
    Row(id, userId, createTaskDto.title, createTaskDto.description, "pending",
        IF IsNull(createTaskDto.priority) THEN "medium" ELSE Val(createTaskDto.priority),
        IF Truthy(createTaskDto.dueDate) THEN ParseDate(Val(createTaskDto.dueDate)) ELSE Null,
        Null, t, t)

CreateError(createTaskDto, userId) ==
    IF createTaskDto.title = <<>> \/ userId = "" THEN "Title and user ID are required"
    ELSE IF Truthy(createTaskDto.dueDate) /\ IsNull(ParseDate(Val(createTaskDto.dueDate)))
         THEN "Invalid due date format"
    ELSE ""

create(createTaskDto, userId) ==
    /\ nextId <= MaxTasks
    /\ IF CreateError(createTaskDto, userId) # ""
       THEN /\ last' = Failure("create", 0, userId, "BadRequest",
                               CreateError(createTaskDto, userId), 0)
            /\ UNCHANGED <<tasks, nextId, calls>>
       ELSE LET task == NewTask(nextId, createTaskDto, userId, now)
            IN  /\ tasks' = Save(tasks, task, now)
                /\ nextId' = nextId + 1
                /\ calls' = Disturb(calls, userId, TRUE)
                /\ last' = [NoOutcome EXCEPT !.op = "create", !.id = nextId, !.userId = userId,
                                            !.kind = "ok", !.task = Some(task),
                                            !.storeCalls = 1]
    /\ UNCHANGED <<now, users>>

findOne(id, userId) ==
    /\ last' = Outcome("findOne", id, userId, findOneResult(tasks, id, userId))
    /\ UNCHANGED <<tasks, nextId, now, calls, users>>

\* Object.keys(updateData).forEach: every field of the DTO that is not
\* undefined is assigned; dueDate is assigned only when it is truthy.
ApplyUpdate(task, updateTaskDto) ==
    [task EXCEPT
        !.title = IF IsNull(updateTaskDto.title) THEN @ ELSE Val(updateTaskDto.title),
        !.description = IF IsNull(updateTaskDto.description) THEN @ ELSE updateTaskDto.description,
        !.status = IF IsNull(updateTaskDto.status) THEN @ ELSE Val(updateTaskDto.status),
        !.priority = IF IsNull(updateTaskDto.priority) THEN @ ELSE Val(updateTaskDto.priority),
        !.dueDate = IF Truthy(updateTaskDto.dueDate)
                    THEN ParseDate(Val(updateTaskDto.dueDate)) ELSE @]

UpdateError(updateTaskDto) ==
    IF Truthy(updateTaskDto.dueDate) /\ IsNull(ParseDate(Val(updateTaskDto.dueDate)))
    THEN "Invalid due date format"
    ELSE IF Truthy(updateTaskDto.status) /\ Val(updateTaskDto.status) \notin TaskStatus
         THEN "Invalid task status"
    ELSE ""

\* update, up to its save: the owner-scoped read, the checks of the DTO, the
\* assignment of the DTO's fields to the entity read.
updateRead(s, id, updateTaskDto, userId) ==
    /\ calls[s].pc = "idle"
    /\ LET found == findOneResult(tasks, id, userId)
       IN  IF found.kind # "ok"
           THEN /\ last' = [Outcome("update", id, userId, found)
                               EXCEPT !.updateTaskDto = updateTaskDto]
                /\ UNCHANGED calls
           ELSE IF UpdateError(updateTaskDto) # ""
           THEN /\ last' = [Failure("update", id, userId, "BadRequest",
                                    UpdateError(updateTaskDto), 1)
                               EXCEPT !.updateTaskDto = updateTaskDto]
                /\ UNCHANGED calls
           ELSE /\ calls' = [calls EXCEPT ![s] =
                                [pc |-> "updateSave", id |-> id, userId |-> userId,
                                 updateTaskDto |-> updateTaskDto,
                                 task |-> ApplyUpdate(Val(found.task), updateTaskDto)]]
                /\ last' = NoOutcome
    /\ UNCHANGED <<tasks, nextId, now, users>>

\* The save that ends update and markAsComplete: a row the store's columns
\* reject fails the query.
SaveStep(s, op, queryFailedKind, queryFailedMessage) ==
    LET call == calls[s]
    IN  IF ~RowAccepted(call.task)
        THEN /\ last' = [Failure(op, call.id, call.userId, queryFailedKind,
                                 queryFailedMessage, 2)
                            EXCEPT !.updateTaskDto = call.updateTaskDto]
             /\ calls' = [calls EXCEPT ![s] = NoCall]
             /\ UNCHANGED tasks
        ELSE /\ tasks' = Save(tasks, call.task, now)
             /\ last' = [NoOutcome EXCEPT !.op = op, !.id = call.id, !.userId = call.userId,
                                         !.kind = "ok", !.storeCalls = 2,
                                         !.updateTaskDto = call.updateTaskDto,
                                         !.task = Some(tasks'[call.id])]
             /\ calls' = Disturb([calls EXCEPT ![s] = NoCall], call.userId, tasks' # tasks)

updateSave(s) ==
    /\ calls[s].pc = "updateSave"
    /\ SaveStep(s, "update", "BadRequest", "Invalid task data provided")
    /\ UNCHANGED <<nextId, now, users>>

MarkedComplete_StatusOnly(task, t) == [task EXCEPT !.status = "completed"]

\* markAsComplete, up to its save
MarkedComplete(task, t) == [task EXCEPT !.status = "completed", !.completedAt = Some(t)]

markAsCompleteRead(s, id, userId) ==
    /\ calls[s].pc = "idle"
    /\ LET found == findOneResult(tasks, id, userId)
       IN  IF found.kind # "ok"
           THEN /\ last' = Outcome("markAsComplete", id, userId, found)
                /\ UNCHANGED calls
           ELSE IF Val(found.task).status = "completed"
           THEN /\ last' = Failure("markAsComplete", id, userId, "BadRequest",
                                   "Task is already completed", 1)
                /\ UNCHANGED calls
           ELSE /\ calls' = [calls EXCEPT ![s] =
                                [pc |-> "markSave", id |-> id, userId |-> userId,
                                 updateTaskDto |-> NoUpdate,
                                 task |-> MarkedComplete(Val(found.task), now)]]
                /\ last' = NoOutcome
    /\ UNCHANGED <<tasks, nextId, now, users>>

markAsCompleteSave(s) ==
    /\ calls[s].pc = "markSave"
    /\ SaveStep(s, "markAsComplete", "InternalError", "Failed to mark task as complete")
    /\ UNCHANGED <<nextId, now, users>>

\* remove, up to its delete
removeRead(s, id, userId) ==
    /\ calls[s].pc = "idle"
    /\ LET found == findOneResult(tasks, id, userId)
       IN  IF found.kind # "ok"
           THEN /\ last' = Outcome("remove", id, userId, found)
                /\ UNCHANGED calls
           ELSE /\ calls' = [calls EXCEPT ![s] =
                                [pc |-> "removeDelete", id |-> id, userId |-> userId,
                                 task |-> Val(found.task)]]
                /\ last' = NoOutcome
    /\ UNCHANGED <<tasks, nextId, now, users>>

removeDelete(s) ==
    /\ calls[s].pc = "removeDelete"
    /\ LET call == calls[s]
       IN  /\ tasks' = Remove(tasks, call.task)
           /\ last' = [NoOutcome EXCEPT !.op = "remove", !.id = call.id,
                                       !.userId = call.userId, !.kind = "ok",
                                       !.message = "Task deleted successfully",
                                       !.storeCalls = 2]
           /\ calls' = Disturb([calls EXCEPT ![s] = NoCall], call.userId, tasks' # tasks)
    /\ UNCHANGED <<nextId, now, users>>

\* getTaskStats: the five counts of Promise.all, which the store runs in any
\* order once the call has fixed its instant.
StatQueries == {"total", "completed", "pending", "inProgress", "overdue"}

Overdue_CountsCompleted(task, at) == ~IsNull(task.dueDate) /\ Val(task.dueDate) < at

Overdue_NullIsPast(task, at) ==
    task.status # "completed" /\ (IsNull(task.dueDate) \/ Val(task.dueDate) < at)

Overdue(task, at) ==
    task.status # "completed" /\ ~IsNull(task.dueDate) /\ Val(task.dueDate) < at

Count(store, userId, q, at) ==
    Cardinality({id \in DOMAIN store :
        /\ store[id].userId = userId
        /\ CASE q = "total" -> TRUE
             [] q = "completed" -> store[id].status = "completed"
             [] q = "pending" -> store[id].status = "pending"
             [] q = "inProgress" -> store[id].status = "in_progress"
             [] q = "overdue" -> Overdue(store[id], at)})

getTaskStatsStart(s, userId) ==
    /\ calls[s].pc = "idle"
    /\ \A o \in Slots : calls[o].pc # "stats"
    /\ calls' = [calls EXCEPT ![s] =
                    [pc |-> "stats", userId |-> userId, at |-> now, left |-> StatQueries,
                     stats |-> NoStats, clean |-> TRUE]]
    /\ last' = NoOutcome
    /\ UNCHANGED <<tasks, nextId, now, users>>

getTaskStatsCount(s, q) ==
    /\ calls[s].pc = "stats"
    /\ q \in calls[s].left
    /\ LET call == calls[s]
           stats == [call.stats EXCEPT ![q] = Count(tasks, call.userId, q, call.at)]
       IN  IF call.left = {q}
           THEN /\ last' = [NoOutcome EXCEPT !.op = "getTaskStats", !.userId = call.userId,
                                            !.kind = "ok", !.storeCalls = 5,
                                            !.stats = stats, !.clean = call.clean,
                                            !.at = call.at]
                /\ calls' = [calls EXCEPT ![s] = NoCall]
           ELSE /\ calls' = [calls EXCEPT ![s] = [call EXCEPT !.stats = stats,
                                                              !.left = @ \ {q}]]
                /\ last' = NoOutcome
    /\ UNCHANGED <<tasks, nextId, now, users>>

TaskIds == 1..MaxTasks

Create ==
    \E createTaskDto \in CreateTaskDtos, userId \in Users : create(createTaskDto, userId)

FindOne == \E id \in TaskIds, userId \in Users : findOne(id, userId)

UpdateRead ==
    \E id \in TaskIds, updateTaskDto \in UpdateTaskDtos, userId \in Users :
        updateRead("s1", id, updateTaskDto, userId)

UpdateSave == \E s \in Slots : updateSave(s)

MarkAsCompleteRead == \E id \in TaskIds, userId \in Users : markAsCompleteRead("s1", id, userId)

MarkAsCompleteSave == \E s \in Slots : markAsCompleteSave(s)

RemoveRead == \E id \in TaskIds, userId \in Users : removeRead("s1", id, userId)

RemoveDelete == \E s \in Slots : removeDelete(s)

\* The calls on single tasks, one multi-step call at a time.
Next ==
    \/ Create
    \/ FindOne
    \/ UpdateRead
    \/ UpdateSave
    \/ MarkAsCompleteRead
    \/ MarkAsCompleteSave
    \/ RemoveRead
    \/ RemoveDelete

Spec == Init /\ [][Next]_vars

(* C1: for every task t owned by account A and every caller B different from  *)
(* A, findOne, update, markAsComplete and remove called with (t.id, B) fail   *)
(* with NotFound and leave t and every other stored task unchanged.           *)

PointOps == {"findOne", "update", "markAsComplete", "remove"}

C1_CrossOwnerCallsFailAndChangeNothing ==
    [][(/\ last'.op \in PointOps
        /\ last'.id \in DOMAIN tasks
        /\ tasks[last'.id].userId # last'.userId)
       => (last'.kind = "NotFound" /\ tasks' = tasks)]_vars

\* remove called by an account on the task of another, while a second task is
\* stored.
C1_Witness ==
    /\ last.op = "remove"
    /\ last.kind = "NotFound"
    /\ last.id \in DOMAIN tasks
    /\ tasks[last.id].userId # last.userId
    /\ \E other \in DOMAIN tasks : other # last.id

(* C2: a point lookup of a task that exists but belongs to another account    *)
(* fails exactly as the lookup of an id that does not exist (NotFound, same    *)
(* message), for findOne, update, markAsComplete and remove: two stores that   *)
(* differ only in other owners' tasks give the caller identical results.       *)

OwnTasksOnly(store, userId) ==
    [id \in {i \in DOMAIN store : store[i].userId = userId} |-> store[id]]

C2_OtherOwnersTasksAreIndistinguishable ==
    /\ [](\A userId \in Users, id \in TaskIds :
              findOneResult(tasks, id, userId)
                  = findOneResult(OwnTasksOnly(tasks, userId), id, userId))
    /\ [][(/\ last'.op \in PointOps
           /\ last'.storeCalls = 1
           /\ (last'.id \notin DOMAIN tasks \/ tasks[last'.id].userId # last'.userId))
          => (/\ last'.kind = "NotFound"
              /\ last'.message = "Task not found"
              /\ last'.task = Null)]_vars

\* findOne called by an account on the stored task of another
C2_Witness ==
    /\ last.op = "findOne"
    /\ last.kind = "NotFound"
    /\ last.message = "Task not found"
    /\ last.id \in DOMAIN tasks
    /\ tasks[last.id].userId # last.userId

(* C7: markAsComplete(id, owner) fails with NotFound when owner has no task    *)
(* with that id; fails with BadRequest when the task is already completed,     *)
(* leaving completedAt and every other field unchanged; otherwise sets status  *)
(* = completed and completedAt = now and persists exactly that change (the     *)
(* store keeps updatedAt).                                                     *)

Completes(op) == last'.op = op

C7_MarkAsCompleteContract ==
    [][/\ (Completes("markAsComplete") /\ last'.storeCalls = 1) =>
              LET row == FindOneRow(tasks, last'.id, last'.userId)
              IN  /\ tasks' = tasks
                  /\ IF row = Null THEN last'.kind = "NotFound"
                     ELSE Val(row).status = "completed" /\ last'.kind = "BadRequest"
       /\ \A s \in Slots :
              (calls[s].pc = "idle" /\ calls'[s].pc = "markSave") =>
                  LET row == FindOneRow(tasks, calls'[s].id, calls'[s].userId)
                  IN  row # Null /\ Val(row).status # "completed"
       /\ \A s \in Slots :
              (calls[s].pc = "markSave" /\ calls'[s].pc = "idle") =>
                  /\ Completes("markAsComplete")
                  /\ last'.kind = "ok"
                  /\ tasks' = [tasks EXCEPT ![calls[s].id] =
                                   [@ EXCEPT !.status = "completed",
                                             !.completedAt = Some(now),
                                             !.updatedAt = now]]
                  /\ last'.task = Some(tasks'[calls[s].id])]_vars

\* markAsComplete has completed a task while a second task is stored.
C7_Witness ==
    /\ last.op = "markAsComplete"
    /\ last.kind = "ok"
    /\ tasks[last.id].status = "completed"
    /\ tasks[last.id].completedAt = Some(now)
    /\ \E other \in DOMAIN tasks : other # last.id

(* C8: over any sequence of create, update and markAsComplete calls on one     *)
(* task, completedAt is written exactly once in the task's lifetime, at the    *)
(* call that moves the task into status completed, and no other call changes   *)
(* it.                                                                         *)

C8_CompletedAtWrittenOnceOnCompletion ==
    [][\A id \in DOMAIN tasks \cap DOMAIN tasks' :
          /\ (tasks[id].status # "completed" /\ tasks'[id].status = "completed") =>
                 (tasks[id].completedAt = Null /\ tasks'[id].completedAt # Null)
          /\ (tasks'[id].completedAt # tasks[id].completedAt) =>
                 (tasks[id].status # "completed" /\ tasks'[id].status = "completed")]_vars


-----------------------------------------------------------------------------
(* Statistics: getTaskStats of u1 in slot s2 while the tasks of u1 and u2 are *)
(* created, and those of u1 updated, completed and removed through slot s1,   *)
(* between its counts.                                                        *)

StatCreateDtos == {[NoCreate EXCEPT !.dueDate = d] : d \in {Null, Some("2024-12-30")}}

StatCreate ==
    /\ nextId <= MaxStatTasks
    /\ \E createTaskDto \in StatCreateDtos, userId \in Users : create(createTaskDto, userId)

StatUpdateRead ==
    \E id \in TaskIds :
        updateRead("s1", id, [NoUpdate EXCEPT !.status = Some("in_progress")], "u1")

StatMarkAsCompleteRead == \E id \in TaskIds : markAsCompleteRead("s1", id, "u1")

StatRemoveRead == \E id \in TaskIds : removeRead("s1", id, "u1")

GetTaskStatsStart == getTaskStatsStart("s2", "u1")

GetTaskStatsCount == \E s \in Slots, q \in StatQueries : getTaskStatsCount(s, q)

NextStats ==
    \/ StatCreate
    \/ StatUpdateRead
    \/ UpdateSave
    \/ StatMarkAsCompleteRead
    \/ MarkAsCompleteSave
    \/ StatRemoveRead
    \/ RemoveDelete
    \/ GetTaskStatsStart
    \/ GetTaskStatsCount

SpecStats == Init /\ [][NextStats]_vars

(* C9: every result of getTaskStats satisfies pending + inProgress +           *)
(* completed <= total and overdue <= total - completed.                        *)

StatsBounded(stats) ==
    /\ stats.pending + stats.inProgress + stats.completed <= stats.total
    /\ stats.overdue <= stats.total - stats.completed

\* As stated: also when calls of the same owner change the store between the
\* five counts.
C9_StatsBoundedUnderInterleaving ==
    (last.op = "getTaskStats" /\ last.kind = "ok") => StatsBounded(last.stats)

\* As amended: when no call of the same owner has changed the store between
\* the start of getTaskStats and its last count.
C9_StatsBoundedWhenUndisturbed ==
    (last.op = "getTaskStats" /\ last.kind = "ok" /\ last.clean) => StatsBounded(last.stats)

\* Statistics over a stored task, returned while another call of the owner is
\* between its read and its write.
C9_Witness ==
    /\ last.op = "getTaskStats"
    /\ last.kind = "ok"
    /\ last.clean
    /\ last.stats.total > 0
    /\ calls["s1"].pc # "idle"

(* C10: with no mutation concurrent to the call, getTaskStats(owner) returns   *)
(* total = the number of the owner's tasks, pending / inProgress / completed   *)
(* = the number of those in each status (the three sum to total), and overdue  *)
(* = the number of those with status != completed and a dueDate strictly       *)
(* before now; tasks without dueDate and tasks of other owners do not count.   *)

OwnedBy(userId) == {id \in DOMAIN tasks : tasks[id].userId = userId}

C10_StatsExactWhenUndisturbed ==
    (last.op = "getTaskStats" /\ last.kind = "ok" /\ last.clean) =>
        LET own == OwnedBy(last.userId)
            InStatus(st) == Cardinality({id \in own : tasks[id].status = st})
        IN  /\ last.stats.total = Cardinality(own)
            /\ last.stats.pending = InStatus("pending")
            /\ last.stats.inProgress = InStatus("in_progress")
            /\ last.stats.completed = InStatus("completed")
            /\ last.stats.pending + last.stats.inProgress + last.stats.completed
                  = last.stats.total
            /\ last.stats.overdue =
                  Cardinality({id \in own :
                      /\ tasks[id].status # "completed"
                      /\ tasks[id].dueDate # Null
                      /\ Val(tasks[id].dueDate) < last.at})

\* Statistics that count an overdue task
C10_Witness ==
    /\ last.op = "getTaskStats"
    /\ last.kind = "ok"
    /\ last.clean
    /\ last.stats.overdue = 1
    /\ last.stats.pending = last.stats.total

-----------------------------------------------------------------------------
(* Updates of one stored task of u1 while the clock advances: every update    *)
(* starts at an instant later than the last write of the store.               *)

MaxClock == 3       \* last instant of the clock in SpecUpdate

StoredTask ==
    Row(1, "u1", <<"a">>, Null, "pending", "medium", Null, Null, 0, 0)

PatchDtos ==
    {NoUpdate,
     [NoUpdate EXCEPT !.title = Some(<<"X">>)],
     [NoUpdate EXCEPT !.title = Some(<<"a">>)],
     [NoUpdate EXCEPT !.description = Some(<<"d">>)],
     [NoUpdate EXCEPT !.status = Some("in_progress")],
     [NoUpdate EXCEPT !.priority = Some("high")],
     [NoUpdate EXCEPT !.dueDate = Some("2024-12-31")],
     [NoUpdate EXCEPT !.title = Some(<<"X">>), !.priority = Some("low")]}

InitUpdate ==
    /\ tasks = [id \in {1} |-> StoredTask]
    /\ nextId = 2
    /\ now = 1
    /\ calls = NoCalls
    /\ last = NoOutcome
    /\ users = <<>>

Tick ==
    /\ now < MaxClock
    /\ now' = now + 1
    /\ last' = NoOutcome
    /\ UNCHANGED <<tasks, nextId, calls, users>>

PatchRead ==
    /\ \A id \in DOMAIN tasks : tasks[id].updatedAt < now
    /\ \E updateTaskDto \in PatchDtos : updateRead("s1", 1, updateTaskDto, "u1")

NextUpdate ==
    \/ Tick
    \/ PatchRead
    \/ UpdateSave
    \/ FindOne

SpecUpdate == InitUpdate /\ [][NextUpdate]_vars

(* C11: a successful update(id, patch, owner) followed by findOne(id, owner)   *)
(* returns, for every field present in patch, the patched value, and for      *)
(* every other field (id, userId, completedAt, createdAt and the fields       *)
(* absent from patch) the value held before the update, with updatedAt        *)
(* strictly greater than before.                                              *)

C11_UpdateThenFindOneRoundTrip ==
    [][\A s \in Slots :
          (calls[s].pc = "updateSave" /\ last'.op = "update" /\ last'.kind = "ok") =>
              LET before == tasks[calls[s].id]
                  patch == calls[s].updateTaskDto
                  got == findOneResult(tasks', calls[s].id, calls[s].userId)
              IN  /\ got.kind = "ok"
                  /\ LET after == Val(got.task)
                     IN  /\ after.title = IF IsNull(patch.title) THEN before.title
                                          ELSE Val(patch.title)
                         /\ after.description = IF IsNull(patch.description)
                                                THEN before.description
                                                ELSE patch.description
                         /\ after.status = IF IsNull(patch.status) THEN before.status
                                           ELSE Val(patch.status)
                         /\ after.priority = IF IsNull(patch.priority) THEN before.priority
                                             ELSE Val(patch.priority)
                         /\ after.dueDate = IF IsNull(patch.dueDate) THEN before.dueDate
                                            ELSE ParseDate(Val(patch.dueDate))
                         /\ after.id = before.id
                         /\ after.userId = before.userId
                         /\ after.completedAt = before.completedAt
                         /\ after.createdAt = before.createdAt
                         /\ after.updatedAt > before.updatedAt]_vars

(* C12: a call whose input is malformed or out of range is rejected with      *)
(* BadRequest before any read or write of the store is issued; in particular  *)
(* update with an unparsable dueDate or a status outside the enum fails with  *)
(* BadRequest whether or not the task exists.                                 *)

MalformedUpdate(updateTaskDto) ==
    \/ ~IsNull(updateTaskDto.dueDate) /\ IsNull(ParseDate(Val(updateTaskDto.dueDate)))
    \/ ~IsNull(updateTaskDto.status) /\ Val(updateTaskDto.status) \notin TaskStatus

C12_MalformedInputRejectedBeforeStoreAccess ==
    /\ (last.op = "update" /\ MalformedUpdate(last.updateTaskDto)) =>
           (last.kind = "BadRequest" /\ last.storeCalls = 0)
    /\ (last.op = "create" /\ last.kind = "BadRequest") => last.storeCalls = 0

-----------------------------------------------------------------------------
(* Races on one stored task of u1: update, markAsComplete and remove of the   *)
(* task run in both slots, each between its read and its write.               *)

InitRace ==
    /\ tasks = [id \in {1} |-> StoredTask]
    /\ nextId = 2
    /\ now = 1
    /\ calls = NoCalls
    /\ last = NoOutcome
    /\ users = <<>>

RaceUpdateRead ==
    \E s \in Slots, updateTaskDto \in {[NoUpdate EXCEPT !.title = Some(<<"X">>)],
                                       [NoUpdate EXCEPT !.title = Some(<<"Y">>)],
                                       [NoUpdate EXCEPT !.priority = Some("high")]} :
        updateRead(s, 1, updateTaskDto, "u1")

RaceMarkAsCompleteRead == \E s \in Slots : markAsCompleteRead(s, 1, "u1")

RaceRemoveRead == \E s \in Slots : removeRead(s, 1, "u1")

NextRace ==
    \/ RaceUpdateRead
    \/ UpdateSave
    \/ RaceMarkAsCompleteRead
    \/ MarkAsCompleteSave
    \/ RaceRemoveRead
    \/ RemoveDelete
    \/ FindOne

SpecRace == InitRace /\ [][NextRace]_vars

(* C13: once remove(id, owner) has succeeded, the task is never stored again: *)
(* every later findOne, update, markAsComplete and remove on that id fails    *)
(* with NotFound, also when an update or markAsComplete of the same task had  *)
(* read the task before the removal and saves it afterwards.                  *)

C13_RemovedTaskNeverStoredAgain ==
    [][\A id \in 1..(nextId - 1) :
          id \notin DOMAIN tasks =>
              /\ id \notin DOMAIN tasks'
              /\ (last'.op \in PointOps /\ last'.id = id) => last'.kind = "NotFound"]_vars

-----------------------------------------------------------------------------
(* Accounts: UsersService (src/src/users/users.service.ts) and AuthService    *)
(* (src/src/auth/auth.service.ts) over the users table.  A user id is a       *)
(* positive number (a UUID the store generates); 0 stands for a missing id.   *)

MaxUsers == 2       \* rows the users table ever holds in SpecUsers

MinPasswordLength == 6

\* String.prototype.toLowerCase
ToLowerCase(s) == [i \in 1..Len(s) |-> Lower(s[i])]

\* /^[^\s@]+@[^\s@]+\.[^\s@]+$/.test(email)
EmailRegexTest(email) ==
    LET n == Len(email)
        ats == {i \in 1..n : email[i] = "@"}
    IN  /\ \A i \in 1..n : ~IsSpace(email[i])
        /\ Cardinality(ats) = 1
        /\ \E i \in ats : i > 1 /\ \E j \in (i + 2)..(n - 1) : email[j] = "."

NormalizeEmail_AsGiven(email) == email

\* email.toLowerCase().trim()
NormalizeEmail(email) == Trim(ToLowerCase(email))

\* bcrypt.hash(password, 12) under the salt it draws, and bcrypt.compare: the
\* hash is a text that determines the password it was made from.
Salts == {"x", "y"}

Hash_Plaintext(password, salt) == password

Hash(password, salt) == <<"$", salt>> \o password

Compare(plainPassword, hashedPassword) ==
    /\ Len(hashedPassword) >= 2
    /\ hashedPassword[1] = "$"
    /\ SubSeq(hashedPassword, 3, Len(hashedPassword)) = plainPassword

\* validatePassword(plainPassword, hashedPassword): the value returned, or the
\* exception thrown
validatePassword(plainPassword, hashedPassword) ==
    IF plainPassword = <<>> \/ hashedPassword = <<>>
    THEN [kind |-> "BadRequest", message |-> "Both passwords are required for validation",
          value |-> FALSE]
    ELSE [kind |-> "ok", message |-> "", value |-> Compare(plainPassword, hashedPassword)]

\* jwtService.sign(payload): the token determines the claims signed
Sign(payload) == <<"jwt", payload>>

\* usersRepository.findOne({ where: { email: email.toLowerCase().trim() } })
FindByEmailRow(store, email) ==
    IF \E id \in DOMAIN store : store[id].email = NormalizeEmail(email)
    THEN Some(store[CHOOSE id \in DOMAIN store : store[id].email = NormalizeEmail(email)])
    ELSE Null

\* usersRepository.findOne({ where: { id } })
FindByIdRow(store, id) == IF id \in DOMAIN store THEN Some(store[id]) ELSE Null

\* The entity create builds from userData
NewUser(id, userData, hashedPassword) ==
    [id |-> id,
     email |-> NormalizeEmail(userData.email),
     firstName |-> userData.firstName,
     lastName |-> userData.lastName,
     password |-> hashedPassword,
     isActive |-> IF IsNull(userData.isActive) THEN TRUE ELSE Val(userData.isActive)]

UserView_WithPassword(user) == user

\* The user that signup and login return: { id, email, firstName, lastName }
UserView(user) ==
    [id |-> user.id, email |-> user.email, firstName |-> user.firstName,
     lastName |-> user.lastName]

\* The columns getProfile selects
ProfileView(user) ==
    [id |-> user.id, email |-> user.email, firstName |-> user.firstName,
     lastName |-> user.lastName, isActive |-> user.isActive]

DuplicateKey_Never(store, user) == FALSE

\* @Column({ unique: true }) email: the INSERT fails on a stored email
DuplicateKey(store, user) == \E id \in DOMAIN store : store[id].email = user.email

InsertUser(store, user) ==
    [id \in DOMAIN store \cup {user.id} |-> IF id = user.id THEN user ELSE store[id]]

\* usersRepository.save(user) of an entity read from the table
SaveUser(store, user) == [store EXCEPT ![user.id] = user]

UserFailure(op, id, kind, message, storeCalls, email, password) ==
    [Failure(op, id, "", kind, message, storeCalls) EXCEPT !.email = email, !.password = password]

CreateUserError(userData) ==
    IF userData.email = <<>> \/ userData.password = <<>> THEN "Email and password are required"
    ELSE IF ~EmailRegexTest(userData.email) THEN "Invalid email format"
    ELSE IF Len(userData.password) < MinPasswordLength
         THEN "Password must be at least 6 characters long"
    ELSE ""

\* signup, through UsersService.create up to the hashing of the password: the
\* checks of userData and the lookup of the email
signupFind(s, signupDto) ==
    /\ calls[s].pc = "idle"
    /\ IF CreateUserError(signupDto) # ""
       THEN /\ last' = UserFailure("signup", 0, "BadRequest", CreateUserError(signupDto), 0,
                                   signupDto.email, signupDto.password)
            /\ UNCHANGED calls
       ELSE IF ~IsNull(FindByEmailRow(users, signupDto.email))
       THEN /\ last' = UserFailure("signup", 0, "Conflict", "Email already exists", 1,
                                   signupDto.email, signupDto.password)
            /\ UNCHANGED calls
       ELSE /\ calls' = [calls EXCEPT ![s] = [pc |-> "userSave", userData |-> signupDto]]
            /\ last' = NoOutcome
    /\ UNCHANGED <<tasks, nextId, now, users>>

\* signup, from the hashing on: the save, where a duplicate key is a Conflict,
\* and the token signed for the saved user
signupSave(s) ==
    /\ calls[s].pc = "userSave"
    /\ \E salt \in Salts :
          LET userData == calls[s].userData
              user == NewUser(Cardinality(DOMAIN users) + 1, userData,
                              Hash(userData.password, salt))
          IN  IF DuplicateKey(users, user)
              THEN /\ last' = UserFailure("signup", 0, "Conflict", "Email already exists", 2,
                                          userData.email, userData.password)
                   /\ UNCHANGED users
              ELSE /\ users' = InsertUser(users, user)
                   /\ last' = [NoOutcome EXCEPT
                                  !.op = "signup", !.id = user.id, !.kind = "ok",
                                  !.storeCalls = 2, !.email = userData.email,
                                  !.password = userData.password,
                                  !.user = Some(UserView(user)),
                                  !.token = Some(Sign([sub |-> user.id, email |-> user.email]))]
    /\ calls' = [calls EXCEPT ![s] = NoCall]
    /\ UNCHANGED <<tasks, nextId, now>>

loginResult_PasswordBeforeActive(store, loginDto) ==
    LET user == FindByEmailRow(store, loginDto.email)
        failure(kind, message, storeCalls) ==
            [kind |-> kind, message |-> message, storeCalls |-> storeCalls,
             user |-> Null, token |-> Null]
    IN  IF loginDto.email = <<>> \/ loginDto.password = <<>>
        THEN failure("BadRequest", "Email and password are required", 0)
        ELSE IF ~EmailRegexTest(loginDto.email)
        THEN failure("BadRequest", "Invalid email format", 0)
        ELSE IF IsNull(user)
        THEN failure("Unauthorized", "Invalid credentials", 1)
        ELSE IF ~validatePassword(loginDto.password, Val(user).password).value
        THEN failure("Unauthorized", "Invalid credentials", 1)
        ELSE [kind |-> "ok", message |-> "", storeCalls |-> 1,
              user |-> Some(UserView(Val(user))),
              token |-> Some(Sign([sub |-> Val(user).id, email |-> Val(user).email]))]

\* login(loginDto): the kind of its result, the message, the token
loginResult(store, loginDto) ==
    LET user == FindByEmailRow(store, loginDto.email)
        failure(kind, message, storeCalls) ==
            [kind |-> kind, message |-> message, storeCalls |-> storeCalls,
             user |-> Null, token |-> Null]
    IN  IF loginDto.email = <<>> \/ loginDto.password = <<>>
        THEN failure("BadRequest", "Email and password are required", 0)
        ELSE IF ~EmailRegexTest(loginDto.email)
        THEN failure("BadRequest", "Invalid email format", 0)
        ELSE IF IsNull(user)
        THEN failure("Unauthorized", "Invalid credentials", 1)
        ELSE IF ~Val(user).isActive
        THEN failure("Unauthorized", "Account is deactivated", 1)
        ELSE IF ~validatePassword(loginDto.password, Val(user).password).value
        THEN failure("Unauthorized", "Invalid credentials", 1)
        ELSE [kind |-> "ok", message |-> "", storeCalls |-> 1,
              user |-> Some(UserView(Val(user))),
              token |-> Some(Sign([sub |-> Val(user).id, email |-> Val(user).email]))]

login(loginDto) ==
    /\ LET res == loginResult(users, loginDto)
       IN  last' = [NoOutcome EXCEPT
                       !.op = "login", !.kind = res.kind, !.message = res.message,
                       !.storeCalls = res.storeCalls, !.email = loginDto.email,
                       !.password = loginDto.password, !.user = res.user,
                       !.id = IF IsNull(res.user) THEN 0 ELSE Val(res.user).id,
                       !.token = res.token]
    /\ UNCHANGED <<tasks, nextId, now, calls, users>>

\* getProfile(userId): the selected columns of an active account
getProfile(userId) ==
    /\ LET user == FindByIdRow(users, userId)
       IN  last' = IF userId = 0
                   THEN UserFailure("getProfile", userId, "BadRequest",
                                    "User ID is required", 0, <<>>, <<>>)
                   ELSE IF IsNull(user)
                   THEN UserFailure("getProfile", userId, "NotFound",
                                    "User not found", 1, <<>>, <<>>)
                   ELSE IF ~Val(user).isActive
                   THEN UserFailure("getProfile", userId, "BadRequest",
                                    "User account is deactivated", 1, <<>>, <<>>)
                   ELSE [NoOutcome EXCEPT !.op = "getProfile", !.id = userId,
                                          !.kind = "ok", !.storeCalls = 1,
                                          !.user = Some(ProfileView(Val(user)))]
    /\ UNCHANGED <<tasks, nextId, now, calls, users>>

\* updateUserStatus, up to its save: the checks and findById
updateUserStatusFind(s, userId, isActive) ==
    /\ calls[s].pc = "idle"
    /\ IF userId = 0
       THEN /\ last' = UserFailure("updateUserStatus", userId, "BadRequest",
                                   "User ID is required", 0, <<>>, <<>>)
            /\ UNCHANGED calls
       ELSE IF IsNull(FindByIdRow(users, userId))
       THEN /\ last' = UserFailure("updateUserStatus", userId, "NotFound",
                                   "User not found", 1, <<>>, <<>>)
            /\ UNCHANGED calls
       ELSE /\ calls' = [calls EXCEPT ![s] =
                            [pc |-> "statusSave",
                             user |-> [Val(FindByIdRow(users, userId))
                                          EXCEPT !.isActive = isActive]]]
            /\ last' = NoOutcome
    /\ UNCHANGED <<tasks, nextId, now, users>>

updateUserStatusSave(s) ==
    /\ calls[s].pc = "statusSave"
    /\ users' = SaveUser(users, calls[s].user)
    /\ last' = [NoOutcome EXCEPT !.op = "updateUserStatus", !.id = calls[s].user.id,
                                !.kind = "ok", !.storeCalls = 2,
                                !.user = Some(calls[s].user)]
    /\ calls' = [calls EXCEPT ![s] = NoCall]
    /\ UNCHANGED <<tasks, nextId, now>>

Secret == <<"s", "e", "c", "r", "e", "t">>

Emails ==
    {<<"a", "@", "b", ".", "c">>, <<"A", "@", "b", ".", "c">>, <<" ", "a", "@", "b", ".", "c">>,
     <<"b", "@", "b", ".", "c">>, <<"a", "b">>}

SignupDtos ==
    {[email |-> e, password |-> p, firstName |-> "John", lastName |-> "Doe", isActive |-> Null] :
        e \in Emails, p \in {Secret, <<"a", "b", "c">>}}

LoginDtos ==
    {[email |-> e, password |-> p] :
        e \in Emails, p \in {Secret, <<"S", "e", "c", "r", "e", "t">>, <<>>}}

InitUsers ==
    /\ tasks = <<>>
    /\ nextId = 1
    /\ now = 0
    /\ calls = NoCalls
    /\ last = NoOutcome
    /\ users = <<>>

SignupFind ==
    /\ Cardinality(DOMAIN users) < MaxUsers
    /\ \E s \in Slots, signupDto \in SignupDtos : signupFind(s, signupDto)

SignupSave == \E s \in Slots : signupSave(s)

Login == \E loginDto \in LoginDtos : login(loginDto)

UpdateUserStatusFind ==
    \E userId \in 0..MaxUsers, isActive \in BOOLEAN : updateUserStatusFind("s1", userId, isActive)

UpdateUserStatusSave == \E s \in Slots : updateUserStatusSave(s)

GetProfile == \E userId \in 0..MaxUsers : getProfile(userId)

NextUsers ==
    \/ SignupFind
    \/ SignupSave
    \/ Login
    \/ UpdateUserStatusFind
    \/ UpdateUserStatusSave
    \/ GetProfile

SpecUsers == InitUsers /\ [][NextUsers]_vars

-----------------------------------------------------------------------------
(* Claims about accounts *)

\* An email as the spec normalizes it: surrounding whitespace trimmed, lowercase
Canonical(email) == LowerText(Trim(email))

\* userData the checks of create let through to the store
WellFormedRegistration(email, password) ==
    EmailRegexTest(email) /\ Len(password) >= MinPasswordLength

(* C14: registering an email that equals, ignoring letter case, the email of  *)
(* an already stored account fails with Conflict and leaves the stored        *)
(* accounts unchanged (password hash and active flag included).               *)

C14_DuplicateEmailIsConflict ==
    [][(/\ last'.op = "signup"
        /\ \E id \in DOMAIN users : LowerText(users[id].email) = LowerText(last'.email))
       => (/\ users' = users
           /\ last'.kind \in {"Conflict", "BadRequest"}
           /\ WellFormedRegistration(last'.email, last'.password) =>
                  last'.kind = "Conflict")]_vars

\* A registration refused for an email that differs in letter case from a
\* stored one
C14_Witness ==
    /\ last.op = "signup"
    /\ last.kind = "Conflict"
    /\ \E id \in DOMAIN users :
          users[id].email # last.email /\ LowerText(users[id].email) = LowerText(last.email)

(* C15: in every reachable state no two stored accounts have the same         *)
(* normalized email, also when two create calls for the same email interleave *)
(* between the existence check and the save: the unique constraint rejects    *)
(* the second save and that call fails with Conflict, never with another      *)
(* failure kind and never with success.                                       *)

C15_EmailsUniqueUnderInterleaving ==
    /\ [](\A i, j \in DOMAIN users :
              i # j => Canonical(users[i].email) # Canonical(users[j].email))
    /\ [][\A s \in Slots :
              (/\ calls[s].pc = "userSave"
               /\ calls'[s].pc = "idle"
               /\ \E id \in DOMAIN users :
                     Canonical(users[id].email) = Canonical(calls[s].userData.email))
              => (/\ last'.op = "signup"
                  /\ last'.kind = "Conflict"
                  /\ last'.storeCalls = 2
                  /\ users' = users)]_vars

\* A create that passed the existence check and was refused at its save
C15_Witness ==
    /\ last.op = "signup"
    /\ last.kind = "Conflict"
    /\ last.storeCalls = 2
    /\ Cardinality(DOMAIN users) = 1

(* C16: emails are normalized by trimming surrounding whitespace and          *)
(* lowercasing before storage and before comparison: create stores the        *)
(* normalized form, and create and findByEmail/login treat two emails that    *)
(* differ only in letter case or in leading/trailing whitespace as the same   *)
(* account.                                                                   *)

C16_EmailsNormalizedBeforeStorageAndComparison ==
    /\ \A id \in DOMAIN users : users[id].email = Canonical(users[id].email)
    /\ (last.op = "signup" /\ last.kind = "ok") => Val(last.user).email = Canonical(last.email)
    /\ (/\ last.op = "signup"
        /\ last.kind # "ok"
        /\ Len(last.password) >= MinPasswordLength
        /\ \E id \in DOMAIN users : users[id].email = Canonical(last.email))
       => last.kind = "Conflict"
    /\ (/\ last.op = "login"
        /\ last.password # <<>>
        /\ \E id \in DOMAIN users : users[id].email = Canonical(last.email))
       => (/\ last.kind \in {"ok", "Unauthorized"}
           /\ last.kind = "ok" => Val(last.user).email = Canonical(last.email))

(* C17: login fails with Unauthorized and the identical message both when no  *)
(* account has the given email and when an account exists but the password    *)
(* does not verify, so the failure does not disclose which of the two         *)
(* happened.                                                                  *)

C17_LoginFailureDoesNotDiscloseAccount ==
    (/\ last.op = "login"
     /\ EmailRegexTest(last.email)
     /\ last.password # <<>>
     /\ \A id \in DOMAIN users :
           users[id].email = Canonical(last.email) =>
               ~Compare(last.password, users[id].password))
    => (last.kind = "Unauthorized" /\ last.message = "Invalid credentials")

(* C18: an inactive account never authenticates: after updateUserStatus(id,   *)
(* false) succeeds, every login for that account fails with Unauthorized,     *)
(* even with the correct password, until updateUserStatus(id, true) succeeds, *)
(* after which login with the unchanged correct password succeeds again.      *)

C18_InactiveAccountNeverAuthenticates ==
    [][/\ (last'.op = "updateUserStatus" /\ last'.kind = "ok") =>
              users'[last'.id].isActive = Val(last'.user).isActive
       /\ \A id \in DOMAIN users :
              users'[id].isActive # users[id].isActive =>
                  (last'.op = "updateUserStatus" /\ last'.kind = "ok" /\ last'.id = id)
       /\ last'.op = "login" =>
              \A id \in DOMAIN users :
                  users[id].email = Canonical(last'.email) =>
                      IF ~users[id].isActive
                      THEN /\ last'.kind # "ok"
                           /\ last'.token = Null
                           /\ (EmailRegexTest(last'.email) /\ last'.password # <<>>) =>
                                  last'.kind = "Unauthorized"
                      ELSE (/\ EmailRegexTest(last'.email)
                            /\ Compare(last'.password, users[id].password)) =>
                               last'.kind = "ok"]_vars

\* A login with the correct password refused for a deactivated account
C18_Witness ==
    /\ last.op = "login"
    /\ last.kind = "Unauthorized"
    /\ \E id \in DOMAIN users :
          /\ users[id].email = Canonical(last.email)
          /\ ~users[id].isActive
          /\ Compare(last.password, users[id].password)

(* C19: login returns an access token if and only if an account with the      *)
(* normalized email exists, is active, and the given password verifies        *)
(* against its stored hash; the token is signed over exactly the claims       *)
(* {sub: that account's id, email: that account's stored email}, and no token *)
(* is signed on any failure path.                                             *)

C19_TokenIffActiveAccountAndPasswordVerifies ==
    last.op = "login" =>
        LET accounts == {id \in DOMAIN users :
                            /\ users[id].email = Canonical(last.email)
                            /\ users[id].isActive
                            /\ last.password # <<>>
                            /\ Compare(last.password, users[id].password)}
        IN  /\ (last.kind = "ok") <=> (accounts # {})
            /\ last.kind = "ok" =>
                   \E id \in accounts :
                       last.token = Some(Sign([sub |-> id, email |-> users[id].email]))
            /\ last.kind # "ok" => last.token = Null

(* C20: for every successful registration with plaintext p, the stored        *)
(* password differs from p, validatePassword(p, stored) returns true, and     *)
(* validatePassword(q, stored) returns false for every plaintext q different  *)
(* from p (the hash modelled as an injective one-way function).               *)

Plaintexts ==
    {Secret, <<"S", "e", "c", "r", "e", "t">>, <<"s", "e", "c", "r", "e">>,
     <<"s", "e", "c", "r", "e", "t", "s">>, <<"$", "x">> \o Secret, <<>>}

Returns(result, value) == result.kind = "ok" /\ result.value = value

-----------------------------------------------------------------------------
(* Claims about interleaved calls on one task (SpecRace) and about the        *)
(* completion fields                                                          *)

PatchFields == {"title", "description", "status", "priority", "dueDate"}

\* The value a patch gives a field of the stored task
Patched(updateTaskDto, field) ==
    CASE field = "title" -> Val(updateTaskDto.title)
      [] field = "description" -> updateTaskDto.description
      [] field = "status" -> Val(updateTaskDto.status)
      [] field = "priority" -> Val(updateTaskDto.priority)
      [] field = "dueDate" -> ParseDate(Val(updateTaskDto.dueDate))

\* The slot s ends its call with a write of the store in this step.
Saves(s, pc) == calls[s].pc = pc /\ calls'[s].pc = "idle"

(* C25: when two update calls on the same task by the same owner interleave   *)
(* (both read the task before either saves), both succeed without any         *)
(* conflict error, and for every field present in the patch of the call that  *)
(* saves last the final stored value is that call's value.                    *)

C25_LastWriteWins ==
    [][\A s \in Slots :
          Saves(s, "updateSave") =>
              /\ last'.op = "update"
              /\ last'.kind = "ok"
              /\ \A field \in PatchFields :
                    ~IsNull(calls[s].updateTaskDto[field]) =>
                        tasks'[calls[s].id][field] = Patched(calls[s].updateTaskDto, field)]_vars

\* Two updates that patch the title differently have both read the task; one
\* has saved and the other is still to save.
C25_Witness ==
    /\ last.op = "update"
    /\ last.kind = "ok"
    /\ \E s \in Slots :
          /\ calls[s].pc = "updateSave"
          /\ calls[s].id = last.id
          /\ ~IsNull(calls[s].updateTaskDto.title)
          /\ ~IsNull(last.updateTaskDto.title)
          /\ calls[s].updateTaskDto.title # last.updateTaskDto.title
          /\ calls[s].task.updatedAt # tasks[last.id].updatedAt

(* C26: in every reachable state, a stored task has status completed if and   *)
(* only if its completedAt is set.                                            *)

C26_CompletedIffCompletedAt ==
    \A id \in DOMAIN tasks :
        (tasks[id].status = "completed") <=> (tasks[id].completedAt # Null)

(* C27: when two markAsComplete calls for the same pending task interleave,   *)
(* exactly one of them succeeds and the other fails with BadRequest ('already *)
(* completed'), so completedAt is written once and keeps the value of the     *)
(* successful call.                                                           *)

C27_OneOfTwoMarkAsCompleteSucceeds ==
    [][\A s \in Slots :
          (/\ Saves(s, "markSave")
           /\ calls[s].id \in DOMAIN tasks
           /\ tasks[calls[s].id].status = "completed")
          => (/\ last'.op = "markAsComplete"
              /\ last'.kind = "BadRequest"
              /\ tasks' = tasks)]_vars

(* C28: when two update calls on the same task patch disjoint sets of fields  *)
(* and interleave (both read before either saves), both patches are present   *)
(* in the final stored task: a field absent from a call's patch keeps the     *)
(* value it has in the store when that call saves, not the value that call    *)
(* read earlier.                                                              *)

C28_AbsentFieldsKeepStoredValue ==
    [][\A s \in Slots :
          (Saves(s, "updateSave") /\ calls[s].id \in DOMAIN tasks) =>
              \A field \in PatchFields :
                  IsNull(calls[s].updateTaskDto[field]) =>
                      tasks'[calls[s].id][field] = tasks[calls[s].id][field]]_vars

(* C29: login(email, wrongPassword) returns the same failure kind and message *)
(* whether no account exists, an active account exists, or an inactive        *)
(* account exists for that email.                                             *)

NoAccounts == <<>>

C29_WrongPasswordLoginSameForEveryAccountState ==
    (/\ last.op = "login"
     /\ \A id \in DOMAIN users :
           users[id].email = Canonical(last.email) =>
               ~Compare(last.password, users[id].password))
    => LET unknown == loginResult(NoAccounts, [email |-> last.email, password |-> last.password])
       IN  last.kind = unknown.kind /\ last.message = unknown.message

-----------------------------------------------------------------------------
(* Paging by query string: findAll with the page and limit that the DTO's     *)
(* parseInt transform delivers for the values of the query string.            *)

QueryValues == {"0", "1", "2", "2.5", "100", "101", "abc", ""}

QueryDtos ==
    {[NoFilter EXCEPT !.page = p, !.limit = l] :
        p \in {Null} \cup {Some(ParseInt(v)) : v \in QueryValues},
        l \in {Null} \cup {Some(ParseInt(v)) : v \in QueryValues}}

ListQuery ==
    /\ last = NoOutcome
    /\ \E filterDto \in QueryDtos : findAll(filterDto, "u1")

NextQuery == ListQuery

SpecQuery == InitPage /\ [][NextQuery]_vars

(* C30: every successful findAll result has an integer page >= 1, an integer  *)
(* limit with 1 <= limit <= 100, and totalPages = ceil(total/limit), for      *)
(* every page and limit value the query DTO can deliver, including the        *)
(* not-a-number value produced by parseInt on a non-numeric query string;     *)
(* such a value is rejected with BadRequest.                                  *)

C30_PagingNumbersValidOrRejected ==
    last.op = "findAll" =>
        /\ last.kind = "ok" =>
               /\ ~IsNaN(last.page) /\ last.page >= 1
               /\ ~IsNaN(last.limit) /\ last.limit >= 1 /\ last.limit <= 100
               /\ IsCeilingOf(last.totalPages, last.total, last.limit)
        /\ (\/ last.filterDto.page = Some(NaN)
            \/ last.filterDto.limit = Some(NaN)) => last.kind = "BadRequest"

-----------------------------------------------------------------------------
(* Changing a password: UsersService.changePassword over one registered       *)
(* account, interleaved with login and updateUserStatus.                      *)

changePasswordError_SameAllowed(userId, currentPassword, newPassword) ==
    IF userId = 0 \/ currentPassword = <<>> \/ newPassword = <<>>
    THEN "User ID, current password, and new password are required"
    ELSE IF Len(newPassword) < MinPasswordLength
    THEN "New password must be at least 6 characters long"
    ELSE ""

\* The checks of the arguments, in the order the code makes them
changePasswordError(userId, currentPassword, newPassword) ==
    IF userId = 0 \/ currentPassword = <<>> \/ newPassword = <<>>
    THEN "User ID, current password, and new password are required"
    ELSE IF Len(newPassword) < MinPasswordLength
    THEN "New password must be at least 6 characters long"
    ELSE IF currentPassword = newPassword
    THEN "New password must be different from current password"
    ELSE ""

UpdatePassword_ResetsActive(store, userId, hashedNewPassword) ==
    IF userId \in DOMAIN store
    THEN [store EXCEPT ![userId].password = hashedNewPassword, ![userId].isActive = TRUE]
    ELSE store

\* usersRepository.update(userId, { password: hashedNewPassword }): writes the
\* one column of the row with that id, if there is one
UpdatePassword(store, userId, hashedNewPassword) ==
    IF userId \in DOMAIN store
    THEN [store EXCEPT ![userId].password = hashedNewPassword]
    ELSE store

\* changePassword, up to the hashing of the new password: the checks, the
\* read of the account's id and password, and validatePassword
changePasswordFind(s, userId, currentPassword, newPassword) ==
    /\ calls[s].pc = "idle"
    /\ LET error == changePasswordError(userId, currentPassword, newPassword)
           user == FindByIdRow(users, userId)
           failure(kind, message, storeCalls) ==
               [UserFailure("changePassword", userId, kind, message, storeCalls,
                            <<>>, currentPassword)
                   EXCEPT !.newPassword = newPassword]
       IN  IF error # ""
           THEN /\ last' = failure("BadRequest", error, 0)
                /\ UNCHANGED calls
           ELSE IF IsNull(user)
           THEN /\ last' = failure("NotFound", "User not found", 1)
                /\ UNCHANGED calls
           ELSE IF validatePassword(currentPassword, Val(user).password).kind # "ok"
           THEN /\ last' = failure(validatePassword(currentPassword, Val(user).password).kind,
                                   validatePassword(currentPassword, Val(user).password).message,
                                   1)
                /\ UNCHANGED calls
           ELSE IF ~validatePassword(currentPassword, Val(user).password).value
           THEN /\ last' = failure("BadRequest", "Current password is incorrect", 1)
                /\ UNCHANGED calls
           ELSE /\ calls' = [calls EXCEPT ![s] =
                                [pc |-> "passwordSave", userId |-> userId,
                                 currentPassword |-> currentPassword,
                                 newPassword |-> newPassword,
                                 user |-> [id |-> Val(user).id,
                                           password |-> Val(user).password]]]
                /\ last' = NoOutcome
    /\ UNCHANGED <<tasks, nextId, now, users>>

\* changePassword, from the hashing on: the update of the password column
changePasswordSave(s) ==
    /\ calls[s].pc = "passwordSave"
    /\ \E salt \in Salts :
          users' = UpdatePassword(users, calls[s].userId, Hash(calls[s].newPassword, salt))
    /\ last' = [NoOutcome EXCEPT !.op = "changePassword", !.id = calls[s].userId,
                                !.kind = "ok", !.storeCalls = 2,
                                !.password = calls[s].currentPassword,
                                !.newPassword = calls[s].newPassword]
    /\ calls' = [calls EXCEPT ![s] = NoCall]
    /\ UNCHANGED <<tasks, nextId, now>>

NewSecret == <<"n", "e", "w", "p", "w", "d">>

RegisteredEmail == <<"a", "@", "b", ".", "c">>

\* The account a signup with RegisteredEmail and Secret stored
RegisteredUser ==
    NewUser(1, [email |-> RegisteredEmail, password |-> Secret, firstName |-> "John",
                lastName |-> "Doe", isActive |-> Null],
            Hash(Secret, "x"))

InitPassword ==
    /\ tasks = [id \in {1} |-> StoredTask]
    /\ nextId = 2
    /\ now = 1
    /\ calls = NoCalls
    /\ last = NoOutcome
    /\ \E isActive \in BOOLEAN :
          users = [id \in {1} |-> [RegisteredUser EXCEPT !.isActive = isActive]]

ChangePasswordFind ==
    \E s \in Slots, userId \in 0..MaxUsers,
       currentPassword \in {Secret, NewSecret, <<>>},
       newPassword \in {Secret, NewSecret, <<"a", "b", "c">>, <<>>} :
        changePasswordFind(s, userId, currentPassword, newPassword)

ChangePasswordSave == \E s \in Slots : changePasswordSave(s)

PasswordLogin ==
    \E password \in {Secret, NewSecret} :
        login([email |-> RegisteredEmail, password |-> password])

PasswordStatusFind ==
    \E s \in Slots, isActive \in BOOLEAN : updateUserStatusFind(s, 1, isActive)

NextPassword ==
    \/ ChangePasswordFind
    \/ ChangePasswordSave
    \/ PasswordLogin
    \/ PasswordStatusFind
    \/ UpdateUserStatusSave

SpecPassword == InitPassword /\ [][NextPassword]_vars

\* The call in slot s passes the checks of changePassword in this step
PassesChecks(s) == calls[s].pc = "idle" /\ calls'[s].pc = "passwordSave"

(* C21: changePassword(id, current, new) fails, leaving the stored password   *)
(* hash unchanged, when current does not verify against the stored hash, when *)
(* new equals current, and when new is shorter than 6, each whatever the      *)
(* other two conditions are: a call passes the checks only if none of the     *)
(* three holds of the hash stored when it is verified, only such a call       *)
(* returns true, and a call that fails leaves the users table as it was.      *)
C21_ChangePasswordRejectsAndKeepsHash ==
    [][/\ \A s \in Slots :
             PassesChecks(s) =>
                 /\ calls'[s].userId \in DOMAIN users
                 /\ Compare(calls'[s].currentPassword, users[calls'[s].userId].password)
                 /\ calls'[s].newPassword # calls'[s].currentPassword
                 /\ Len(calls'[s].newPassword) >= 6
       /\ ((last'.op = "changePassword" /\ last'.kind = "ok") =>
               \E s \in Slots :
                   /\ Saves(s, "passwordSave")
                   /\ Compare(calls[s].currentPassword, calls[s].user.password)
                   /\ last'.newPassword # last'.password
                   /\ Len(last'.newPassword) >= 6)
       /\ ((last'.op = "changePassword" /\ last'.kind # "ok") =>
               /\ users' = users
               /\ \A s \in Slots : calls'[s] = calls[s])
      ]_vars

\* A call whose current password verifies and whose new password is long
\* enough fails because the two are equal
C21_Witness ==
    /\ last.op = "changePassword"
    /\ last.kind = "BadRequest"
    /\ last.message = "New password must be different from current password"
    /\ last.id \in DOMAIN users
    /\ Compare(last.password, users[last.id].password)
    /\ Len(last.newPassword) >= 6

\* login with the email stored for the account id and the given password
LoginAs(store, id, password) ==
    loginResult(store, [email |-> store[id].email, password |-> password])

\* Everything of the users table but the password of the account id
OtherColumns(store, id) ==
    [i \in DOMAIN store |->
        IF i = id THEN [store[i] EXCEPT !.password = <<>>] ELSE store[i]]

(* C22 as stated: after changePassword(id, current, new) returns true, login  *)
(* with the new password succeeds and login with the old password fails with  *)
(* Unauthorized, and nothing but the account's password hash has changed:      *)
(* email, active flag and the account's tasks are untouched.                   *)
C22_NewPasswordLogsInOldDoesNot ==
    [][\A s \in Slots :
          Saves(s, "passwordSave") =>
              /\ last'.op = "changePassword" /\ last'.kind = "ok"
              /\ LoginAs(users', calls[s].userId, calls[s].newPassword).kind = "ok"
              /\ LoginAs(users', calls[s].userId, calls[s].currentPassword).kind
                     = "Unauthorized"
              /\ OtherColumns(users', calls[s].userId) = OtherColumns(users, calls[s].userId)
              /\ tasks' = tasks
      ]_vars

(* C22, amended: after changePassword(id, current, new) returns true, login   *)
(* with the new password succeeds if the account is active and fails with     *)
(* Unauthorized if it is deactivated, login with the old password fails with   *)
(* Unauthorized, the stored hash verifies the new password and not the old,    *)
(* and nothing but the account's password hash has changed.                    *)
C22_NewPasswordLogsInWhenActive ==
    [][\A s \in Slots :
          Saves(s, "passwordSave") =>
              /\ last'.op = "changePassword" /\ last'.kind = "ok"
              /\ LoginAs(users', calls[s].userId, calls[s].newPassword).kind
                     = IF users'[calls[s].userId].isActive THEN "ok" ELSE "Unauthorized"
              /\ Compare(calls[s].newPassword, users'[calls[s].userId].password)
              /\ ~Compare(calls[s].currentPassword, users'[calls[s].userId].password)
              /\ LoginAs(users', calls[s].userId, calls[s].currentPassword).kind
                     = "Unauthorized"
              /\ OtherColumns(users', calls[s].userId) = OtherColumns(users, calls[s].userId)
              /\ tasks' = tasks
      ]_vars

\* changePassword has returned true for an active account, whose stored hash
\* now verifies the new password
C22_Witness ==
    /\ last.op = "changePassword"
    /\ last.kind = "ok"
    /\ users[last.id].isActive
    /\ LoginAs(users, last.id, last.newPassword).kind = "ok"
    /\ LoginAs(users, last.id, last.password).kind = "Unauthorized"

\* The operations whose results go to the caller of the API
CallerOps == {"signup", "login", "getProfile"}

(* C23: the stored password hash never appears in a value returned to the     *)
(* caller: the results of signup, login and getProfile have no password       *)
(* field, on success and on failure; the token is signed over the id and the  *)
(* email alone, no text returned is a stored hash, and a failure returns a    *)
(* fixed message and neither user nor token.                                  *)
C23_NoPasswordInResults ==
    last.op \in CallerOps =>
        /\ ~IsNull(last.user) =>
               /\ "password" \notin DOMAIN Val(last.user)
               /\ \A id \in DOMAIN users : Val(last.user).email # users[id].password
        /\ ~IsNull(last.token) => DOMAIN Val(last.token)[2] = {"sub", "email"}
        /\ last.kind # "ok" => IsNull(last.user) /\ IsNull(last.token)
        /\ last.kind = "ok" => ~IsNull(last.user) /\ last.message = ""

\* A login has returned the user and a token while the account's hash is stored
C23_Witness ==
    /\ last.op = "login"
    /\ last.kind = "ok"
    /\ ~IsNull(last.user)
    /\ users[last.id].password # <<>>

-----------------------------------------------------------------------------
(* Store failures: a call of the repository that throws.  The driver's        *)
(* failure of a query the database received (a deadlock, a statement timeout, *)
(* a lost connection) reaches the service as a QueryFailedError, any other    *)
(* failure (no connection to be had) as a plain Error.  The clash of a unique *)
(* key is DuplicateKey above and not among these.                             *)

StoreErrors == {"QueryFailedError", "Error"}

\* The catch blocks of TasksService, for an error thrown by a store call
TaskCatch(op, error) ==
    CASE op = "create" ->
             IF error = "QueryFailedError"
             THEN [kind |-> "BadRequest", message |-> "Invalid task data provided"]
             ELSE [kind |-> "InternalError", message |-> "Failed to create task"]
      [] op = "findAll" -> [kind |-> "InternalError", message |-> "Failed to retrieve tasks"]
      [] op = "findOne" -> [kind |-> "InternalError", message |-> "Failed to retrieve task"]
      [] op = "update" ->
             IF error = "QueryFailedError"
             THEN [kind |-> "BadRequest", message |-> "Invalid task data provided"]
             ELSE [kind |-> "InternalError", message |-> "Failed to update task"]
      [] op = "markAsComplete" ->
             [kind |-> "InternalError", message |-> "Failed to mark task as complete"]
      [] op = "remove" -> [kind |-> "InternalError", message |-> "Failed to delete task"]
      [] op = "getTaskStats" ->
             [kind |-> "InternalError", message |-> "Failed to retrieve task statistics"]

\* The catch blocks of UsersService.create and UsersService.findByEmail, whose
\* exceptions AuthService.signup and AuthService.login throw on
UserCatch(op, error) ==
    CASE op = "signup" ->
             IF error = "QueryFailedError"
             THEN [kind |-> "BadRequest", message |-> "Invalid user data provided"]
             ELSE [kind |-> "InternalError", message |-> "Failed to create user account"]
      [] op = "login" ->
             IF error = "QueryFailedError"
             THEN [kind |-> "InternalError", message |-> "Database query failed"]
             ELSE [kind |-> "InternalError", message |-> "Failed to find user by email"]

StoreFailure(op, id, userId, caught, storeCalls, error) ==
    [Failure(op, id, userId, caught.kind, caught.message, storeCalls)
        EXCEPT !.storeError = error]

\* create whose save throws
createFails(createTaskDto, userId, error) ==
    /\ CreateError(createTaskDto, userId) = ""
    /\ last' = StoreFailure("create", 0, userId, TaskCatch("create", error), 1, error)
    /\ UNCHANGED <<tasks, nextId, now, calls, users>>

\* findAll whose query throws
findAllFails(filterDto, userId, error) ==
    /\ FindAllError(filterDto, userId) = ""
    /\ ~IsNaN(SkipOf(filterDto)) /\ ~IsNaN(LimitOf(filterDto))
    /\ last' = [StoreFailure("findAll", 0, userId, TaskCatch("findAll", error), 1, error)
                   EXCEPT !.filterDto = filterDto]
    /\ UNCHANGED <<tasks, nextId, now, calls, users>>

\* findOne whose query throws, called by itself or as the first step of
\* update, markAsComplete and remove, which throw its exception on
findOneFails(s, op, id, userId, error) ==
    /\ calls[s].pc = "idle"
    /\ userId # ""
    /\ last' = StoreFailure(op, id, userId, TaskCatch("findOne", error), 1, error)
    /\ UNCHANGED <<tasks, nextId, now, calls, users>>

\* The save of update or markAsComplete, or the remove of remove, throws
saveFails(s, error) ==
    /\ calls[s].pc \in {"updateSave", "markSave", "removeDelete"}
    /\ LET op == CASE calls[s].pc = "updateSave" -> "update"
                   [] calls[s].pc = "markSave" -> "markAsComplete"
                   [] calls[s].pc = "removeDelete" -> "remove"
       IN  last' = StoreFailure(op, calls[s].id, calls[s].userId, TaskCatch(op, error), 2, error)
    /\ calls' = [calls EXCEPT ![s] = NoCall]
    /\ UNCHANGED <<tasks, nextId, now, users>>

\* getTaskStats one of whose counts throws
getTaskStatsFails(userId, error) ==
    /\ userId # ""
    /\ last' = StoreFailure("getTaskStats", 0, userId, TaskCatch("getTaskStats", error), 5, error)
    /\ UNCHANGED <<tasks, nextId, now, calls, users>>

\* signup whose lookup of the email throws
signupFindFails(s, signupDto, error) ==
    /\ calls[s].pc = "idle"
    /\ CreateUserError(signupDto) = ""
    /\ last' = [StoreFailure("signup", 0, "", UserCatch("signup", error), 1, error)
                   EXCEPT !.email = signupDto.email, !.password = signupDto.password]
    /\ UNCHANGED <<tasks, nextId, now, calls, users>>

\* signup whose save throws
signupSaveFails(s, error) ==
    /\ calls[s].pc = "userSave"
    /\ last' = [StoreFailure("signup", 0, "", UserCatch("signup", error), 2, error)
                   EXCEPT !.email = calls[s].userData.email,
                          !.password = calls[s].userData.password]
    /\ calls' = [calls EXCEPT ![s] = NoCall]
    /\ UNCHANGED <<tasks, nextId, now, users>>

\* login whose lookup of the email throws
loginFails(loginDto, error) ==
    /\ loginDto.email # <<>> /\ loginDto.password # <<>>
    /\ EmailRegexTest(loginDto.email)
    /\ last' = [StoreFailure("login", 0, "", UserCatch("login", error), 1, error)
                   EXCEPT !.email = loginDto.email, !.password = loginDto.password]
    /\ UNCHANGED <<tasks, nextId, now, calls, users>>

FaultSignupDto ==
    [email |-> RegisteredEmail, password |-> Secret, firstName |-> "John",
     lastName |-> "Doe", isActive |-> Null]

FaultUpdateRead ==
    updateRead("s1", 1, [NoUpdate EXCEPT !.title = Some(<<"X">>)], "u1")

FaultMarkAsCompleteRead == markAsCompleteRead("s1", 1, "u1")

FaultRemoveRead == removeRead("s1", 1, "u1")

FaultCreate == create(NoCreate, "u1")

FaultSignupFind ==
    /\ DOMAIN users = {}
    /\ signupFind("s2", FaultSignupDto)

CreateFails == \E error \in StoreErrors : createFails(NoCreate, "u1", error)

FindAllFails == \E error \in StoreErrors : findAllFails(NoFilter, "u1", error)

FindOneFails ==
    \E op \in PointOps, error \in StoreErrors : findOneFails("s1", op, 1, "u1", error)

SaveFails == \E s \in Slots, error \in StoreErrors : saveFails(s, error)

GetTaskStatsFails == \E error \in StoreErrors : getTaskStatsFails("u1", error)

SignupFindFails == \E error \in StoreErrors : signupFindFails("s2", FaultSignupDto, error)

SignupSaveFails == \E error \in StoreErrors : signupSaveFails("s2", error)

LoginFails ==
    \E error \in StoreErrors :
        loginFails([email |-> RegisteredEmail, password |-> Secret], error)

NextFault ==
    \/ FaultCreate
    \/ FaultUpdateRead
    \/ UpdateSave
    \/ FaultMarkAsCompleteRead
    \/ MarkAsCompleteSave
    \/ FaultRemoveRead
    \/ RemoveDelete
    \/ FaultSignupFind
    \/ SignupSave
    \/ CreateFails
    \/ FindAllFails
    \/ FindOneFails
    \/ SaveFails
    \/ GetTaskStatsFails
    \/ SignupFindFails
    \/ SignupSaveFails
    \/ LoginFails

SpecFault == InitRace /\ [][NextFault]_vars

(* C24: when a store call fails unexpectedly (any storage error other than a  *)
(* unique-key clash) during users create, login, task create, findAll,        *)
(* findOne, update, markAsComplete, remove or getTaskStats, the operation     *)
(* fails with InternalError, and what the caller receives is never the raw    *)
(* storage error.                                                             *)
C24_StoreFailureIsInternalError ==
    last.storeError # "" =>
        /\ last.kind = "InternalError"
        /\ last.message \notin StoreErrors

=============================================================================
